---- MODULE Spec2Model ----
(***************************************************************************)
(* A model of mtf.plan.graph.PlanGraph: schema-gated parsing of a plan     *)
(* document into Epic/Story/Task nodes, construction of the networkx       *)
(* DiGraph with ComponentOf / DependsOn edges, the ready-task query and    *)
(* the three renderers.                                                    *)
(*                                                                         *)
(* A document is the content of the file at xml_path: a kind (whether the  *)
(* file is readable, well-formed and schema-valid; the schema itself is an *)
(* external collaborator) and the element tree the parser walks.  Strings  *)
(* are the raw attribute and child texts; Absent stands for an attribute  *)
(* or child element that is not there.                                     *)
(***************************************************************************)
EXTENDS Integers, Sequences, FiniteSets, TLC

\* file: the content of plan.xml; graph, plan, schema: the fields of the
\* PlanGraph object; loads: how often plan.xsd was loaded; ret: the last call
\* and its outcome; old: the graph, the plan and the content of plan.xml as they
\* were when that call began.
VARIABLES file, graph, plan, schema, loads, ret, old

vars == <<file, graph, plan, schema, loads, ret, old>>

----------------------------------------------------------------------------
(* Bounds of the explored inputs.                                          *)

\* Length of the dependency chains t1 <- t2 <- ... explored by ChainDocs.
ChainLen == 3

\* Number of nodes a caller adds to the graph directly (graph.add_node).
MaxDirect == 1

----------------------------------------------------------------------------
(* Raw texts and the enum.                                                 *)

Absent == "<absent>"

\* elem.get(name, default) / elem.findtext(name, default)
Get(raw, default) == IF raw = Absent THEN default ELSE raw

\* Status(status_str): the enum member for a raw value, by value lookup.
StatusValues == {"pending", "in_progress", "complete"}

Status(raw) ==
  CASE raw = "pending"     -> "PENDING"
    [] raw = "in_progress" -> "IN_PROGRESS"
    [] raw = "complete"    -> "COMPLETE"

\* Status.value
StatusValue(member) ==
  CASE member = "PENDING"     -> "pending"
    [] member = "IN_PROGRESS" -> "in_progress"
    [] member = "COMPLETE"    -> "complete"

\* int(text): the texts of the explored documents that int() accepts.
IntTexts == {"0", "1", "2", "3"}

int(text) ==
  CASE text = "0" -> 0
    [] text = "1" -> 1
    [] text = "2" -> 2
    [] text = "3" -> 3

None == [kind |-> "None"]

----------------------------------------------------------------------------
(* Parsing: _parse_task, _parse_story, _parse_epic.  Each returns a node   *)
(* or None; a ValueError/TypeError anywhere in the body is caught and      *)
(* turned into None.                                                       *)

\* [cast(str, dep.text) for dep in deps if dep.text]
DepTexts(deps) == SelectSeq(deps, LAMBDA t : t # "" /\ t # Absent)

\* Status(status_str) or int(priority_str) raises ValueError
RaisesValueError(status_str, priority_str) ==
  \/ status_str \notin StatusValues
  \/ priority_str \notin IntTexts

_parse_task(task_elem) ==
  LET task_id      == Get(task_elem.id, "")
      status_str   == Get(task_elem.status, "")
      description  == Get(task_elem.description, "")
      priority_str == Get(task_elem.priority, "1")
      depends_on   == DepTexts(task_elem.depends_on)
  IN IF RaisesValueError(status_str, priority_str)
     THEN None
     ELSE [kind        |-> "TaskNode",
           id          |-> task_id,
           description |-> description,
           status      |-> Status(status_str),
           priority    |-> int(priority_str),
           depends_on  |-> depends_on]

RECURSIVE ParseTasks(_)
\* for task_elem in story_elem.findall(".//task"): keep the tasks that parse
ParseTasks(elems) ==
  IF elems = <<>> THEN <<>>
  ELSE LET task == _parse_task(Head(elems))
       IN IF task.kind # "None" THEN <<task>> \o ParseTasks(Tail(elems))
          ELSE ParseTasks(Tail(elems))

_parse_story(story_elem) ==
  LET story_id     == Get(story_elem.id, "")
      status_str   == Get(story_elem.status, "")
      description  == Get(story_elem.description, "")
      priority_str == Get(story_elem.priority, "1")
      points_str   == Get(story_elem.points, "0")
      tasks        == ParseTasks(story_elem.tasks)
  IN IF RaisesValueError(status_str, priority_str) \/ points_str \notin IntTexts
     THEN None
     ELSE [kind        |-> "StoryNode",
           id          |-> story_id,
           description |-> description,
           status      |-> Status(status_str),
           priority    |-> int(priority_str),
           points      |-> int(points_str),
           tasks       |-> tasks]

RECURSIVE ParseStories(_)
\* for story_elem in epic_elem.findall(".//story"): keep the stories that parse
ParseStories(elems) ==
  IF elems = <<>> THEN <<>>
  ELSE LET story == _parse_story(Head(elems))
       IN IF story.kind # "None" THEN <<story>> \o ParseStories(Tail(elems))
          ELSE ParseStories(Tail(elems))

_parse_epic(epic_elem) ==
  LET epic_id      == Get(epic_elem.id, "")
      status_str   == Get(epic_elem.status, "")
      description  == Get(epic_elem.description, "")
      priority_str == Get(epic_elem.priority, "1")
      stories      == ParseStories(epic_elem.stories)
  IN IF RaisesValueError(status_str, priority_str)
     THEN None
     ELSE [kind        |-> "EpicNode",
           id          |-> epic_id,
           description |-> description,
           status      |-> Status(status_str),
           priority    |-> int(priority_str),
           stories     |-> stories]

RECURSIVE ParseEpics(_)
\* for epic_elem in root.findall(".//epic"): keep the epics that parse
ParseEpics(elems) ==
  IF elems = <<>> THEN <<>>
  ELSE LET epic == _parse_epic(Head(elems))
       IN IF epic.kind # "None" THEN <<epic>> \o ParseEpics(Tail(elems))
          ELSE ParseEpics(Tail(elems))

----------------------------------------------------------------------------
(* The networkx DiGraph.  nodes: the node ids in insertion order; attr:    *)
(* each node's attribute dict, reduced to its "node" entry (None when the  *)
(* dict has no such key); adj: the edges (u, v) in insertion order, which  *)
(* gives both the successor order of u and the predecessor order of v;     *)
(* edge: each edge's Edge(type=...) attribute.  A DiGraph holds at most    *)
(* one edge per ordered pair.                                              *)

COMPONENT_OF == "COMPONENT_OF"
DEPENDS_ON   == "DEPENDS_ON"

EmptyGraph == [nodes |-> <<>>, attr |-> <<>>, adj |-> <<>>, edge |-> <<>>]

Range(s) == {s[i] : i \in DOMAIN s}

HasNode(g, n) == n \in DOMAIN g.attr

HasEdge(g, u, v) == <<u, v>> \in DOMAIN g.edge

\* Mutant of clear: the graph keeps its contents.
clear_Nothing(g) == g

\* graph.clear()
clear(g) == EmptyGraph

\* The node is created with an empty attribute dict when it is new.
Touch(g, n) ==
  IF HasNode(g, n) THEN g
  ELSE [g EXCEPT !.nodes = Append(@, n), !.attr = (n :> None) @@ @]

\* graph.add_node(n, node=payload): a new node, or an update of its attributes
add_node(g, n, payload) ==
  LET h == Touch(g, n)
  IN [h EXCEPT !.attr = (n :> payload) @@ @]

\* graph.add_edge(u, v, edge=Edge(type=t)): creates u and v when missing, and
\* overwrites the attribute of an edge (u, v) that is already there
add_edge(g, u, v, t) ==
  LET h == Touch(Touch(g, u), v)
  IN IF HasEdge(h, u, v)
     THEN [h EXCEPT !.edge = (<<u, v>> :> t) @@ @]
     ELSE [h EXCEPT !.adj = Append(@, <<u, v>>), !.edge = (<<u, v>> :> t) @@ @]

\* graph.successors(n), in adjacency order
successors(g, n) ==
  LET out == SelectSeq(g.adj, LAMBDA e : e[1] = n)
  IN [i \in DOMAIN out |-> out[i][2]]

\* graph.in_edges(n), in adjacency order
in_edges(g, n) == SelectSeq(g.adj, LAMBDA e : e[2] = n)

RECURSIVE EdgesFrom(_, _)
\* graph.edges(data=True): for each node in node order, its out-edges
EdgesFrom(g, ns) ==
  IF ns = <<>> THEN <<>>
  ELSE SelectSeq(g.adj, LAMBDA e : e[1] = Head(ns)) \o EdgesFrom(g, Tail(ns))

edges(g) == EdgesFrom(g, g.nodes)

----------------------------------------------------------------------------
(* build_from_xml, lines 241-254: the graph from the plan.                 *)

RECURSIVE AddDeps(_, _, _)
AddDeps(g, task, deps) ==
  IF deps = <<>> THEN g
  ELSE AddDeps(add_edge(g, task.id, Head(deps), DEPENDS_ON), task, Tail(deps))

RECURSIVE AddTasks(_, _, _)
AddTasks(g, story, tasks) ==
  IF tasks = <<>> THEN g
  ELSE LET task == Head(tasks)
           g1 == add_node(g, task.id, task)
           g2 == add_edge(g1, task.id, story.id, COMPONENT_OF)
       IN AddTasks(AddDeps(g2, task, task.depends_on), story, Tail(tasks))

RECURSIVE AddStories(_, _, _)
AddStories(g, epic, stories) ==
  IF stories = <<>> THEN g
  ELSE LET story == Head(stories)
           g1 == add_node(g, story.id, story)
           g2 == add_edge(g1, story.id, epic.id, COMPONENT_OF)
       IN AddStories(AddTasks(g2, story, story.tasks), epic, Tail(stories))

RECURSIVE AddEpics(_, _)
AddEpics(g, epics) ==
  IF epics = <<>> THEN g
  ELSE LET epic == Head(epics)
           g1 == add_node(g, epic.id, epic)
       IN AddEpics(AddStories(g1, epic, epic.stories), Tail(epics))

----------------------------------------------------------------------------
(* The operations of PlanGraph.  Each takes the object's fields            *)
(* self = [graph, plan, schema, loads] and its argument, and yields the    *)
(* fields after the call and the outcome: a returned value or the          *)
(* exception that escapes.  loads counts the loads of plan.xsd.            *)

Return(self, value) ==
  [self |-> self, tag |-> "return", exc |-> "", cause |-> "", value |-> value]

Raise(self, exc, cause) ==
  [self |-> self, tag |-> "raise", exc |-> exc, cause |-> cause, value |-> <<>>]

\* Mutant of _load_schema: plan.xsd is parsed at every call.
_load_schema_Reloading(self) ==
  [self EXCEPT !.schema = "XMLSchema", !.loads = @ + 1]

\* _load_schema: parse and cache plan.xsd when it is not cached yet
_load_schema(self) ==
  IF self.schema = "None"
  THEN [self EXCEPT !.schema = "XMLSchema", !.loads = @ + 1]
  ELSE self

\* Mutant of validate_xml: a schema violation is reported as False, as
\* schema.validate would.
validate_xml_ReturningFalse(self, doc) ==
  IF doc.kind = "unreadable"
  THEN Raise(self, "XMLValidationError", "OSError")
  ELSE IF doc.kind = "malformed"
  THEN Raise(self, "XMLValidationError", "XMLSyntaxError")
  ELSE LET loaded == _load_schema(self)
       IN IF doc.kind = "schema_violation"
          THEN Return(loaded, <<"False">>)
          ELSE Return(loaded, <<"True">>)

\* validate_xml: etree.parse, then _load_schema, then schema.assertValid
validate_xml(self, doc) ==
  IF doc.kind = "unreadable"
  THEN Raise(self, "XMLValidationError", "OSError")
  ELSE IF doc.kind = "malformed"
  THEN Raise(self, "XMLValidationError", "XMLSyntaxError")
  ELSE LET loaded == _load_schema(self)
       IN IF doc.kind = "schema_violation"
          THEN Raise(loaded, "XMLValidationError", "DocumentInvalid")
          ELSE Return(loaded, <<"True">>)

\* Mutant of build_from_xml: the graph is cleared before the validation.
build_from_xml_ClearFirst(self, doc) ==
  LET cleared == [self EXCEPT !.graph = clear(self.graph)]
      v == validate_xml(cleared, doc)
  IN IF v.tag = "raise" THEN v
     ELSE LET epics == ParseEpics(doc.epics)
              built == [kind |-> "PlanNode", version |-> Get(doc.version, "1.0"),
                        epics |-> epics]
          IN Return([v.self EXCEPT !.graph = AddEpics(v.self.graph, built.epics),
                                   !.plan  = built],
                    <<>>)

\* Mutant of build_from_xml: a plan that is already there is kept.
build_from_xml_KeepingPlan(self, doc) ==
  LET v == validate_xml(self, doc)
  IN IF v.tag = "raise" THEN v
     ELSE LET cleared == clear(v.self.graph)
              version == Get(doc.version, "1.0")
              epics   == ParseEpics(doc.epics)
              built   == [kind |-> "PlanNode", version |-> version, epics |-> epics]
          IN Return([v.self EXCEPT !.graph = AddEpics(cleared, built.epics),
                                   !.plan  = IF self.plan.kind = "None" THEN built
                                             ELSE self.plan],
                    <<>>)

\* build_from_xml: validate, clear the graph, parse the plan, add nodes and edges
build_from_xml(self, doc) ==
  LET v == validate_xml(self, doc)
  IN IF v.tag = "raise" THEN v
     ELSE LET cleared == clear(v.self.graph)
              version == Get(doc.version, "1.0")
              epics   == ParseEpics(doc.epics)
              built   == [kind |-> "PlanNode", version |-> version, epics |-> epics]
          IN Return([v.self EXCEPT !.graph = AddEpics(cleared, built.epics),
                                   !.plan  = built],
                    <<>>)

\* Model.model_validate(request): a request that does not fit the model raises
model_validate(self, request) ==
  IF request.wellformed THEN Return(self, <<>>)
  ELSE Raise(self, "ValidationError", "")

\* Mutant of DependsOnTargets: every successor counts, whatever the edge.
DependsOnTargets_AnyEdge(g, node_id) == successors(g, node_id)

\* Mutant of DependsOnTargets: an edge from the node to itself is left out.
DependsOnTargets_SkippingSelf(g, node_id) ==
  SelectSeq(successors(g, node_id),
            LAMBDA dep : g.edge[<<node_id, dep>>] = DEPENDS_ON /\ dep # node_id)

\* the dependencies list of get_ready_tasks, lines 282-286: the successors
\* reached over a DEPENDS_ON edge
DependsOnTargets(g, node_id) ==
  SelectSeq(successors(g, node_id), LAMBDA dep : g.edge[<<node_id, dep>>] = DEPENDS_ON)

\* self.graph.nodes[dep]["node"] raises KeyError for a node without that key
LookupRaises(g, deps) == \E i \in DOMAIN deps : g.attr[deps[i]].kind = "None"

\* Mutant of AllComplete: the dependencies of the dependencies have to be
\* complete as well.
AllComplete_Transitive(g, deps) ==
  \A i \in DOMAIN deps :
     /\ g.attr[deps[i]].status = "COMPLETE"
     /\ LET further == DependsOnTargets(g, deps[i])
        IN \A j \in DOMAIN further :
              /\ g.attr[further[j]].kind # "None"
              /\ g.attr[further[j]].status = "COMPLETE"

\* all(dep.status == Status.COMPLETE for dep in dependencies)
AllComplete(g, deps) == \A i \in DOMAIN deps : g.attr[deps[i]].status = "COMPLETE"

\* Mutant of Skipped: in-progress tasks are never skipped.
Skipped_IgnoringFlag(node, include_in_progress) ==
  \/ node.kind # "TaskNode"
  \/ node.status = "COMPLETE"

\* lines 272-279: the node is not a TaskNode, is complete, or is in progress
\* while in-progress tasks are not asked for
Skipped(node, include_in_progress) ==
  \/ node.kind # "TaskNode"
  \/ node.status = "COMPLETE"
  \/ node.status = "IN_PROGRESS" /\ ~include_in_progress

RECURSIVE ReadyLoop(_, _, _, _)
\* the loop over graph.nodes(data=True); ready_tasks is the list so far
ReadyLoop(g, ns, include_in_progress, ready_tasks) ==
  IF ns = <<>> THEN [raised |-> FALSE, tasks |-> ready_tasks]
  ELSE LET node_id == Head(ns)
           node    == g.attr[node_id]
           deps    == DependsOnTargets(g, node_id)
       IN IF Skipped(node, include_in_progress)
          THEN ReadyLoop(g, Tail(ns), include_in_progress, ready_tasks)
          ELSE IF LookupRaises(g, deps)
          THEN [raised |-> TRUE, tasks |-> ready_tasks]
          ELSE IF AllComplete(g, deps)
          THEN ReadyLoop(g, Tail(ns), include_in_progress, Append(ready_tasks, node_id))
          ELSE ReadyLoop(g, Tail(ns), include_in_progress, ready_tasks)

\* Mutant of get_ready_tasks: the ready tasks are marked in progress in the graph.
get_ready_tasks_Claiming(self, request) ==
  LET checked == model_validate(self, request)
  IN IF checked.tag = "raise" THEN checked
     ELSE LET g == self.graph
              r == ReadyLoop(g, g.nodes, request.flag, <<>>)
              claimed == [n \in DOMAIN g.attr |->
                            IF n \in Range(r.tasks)
                            THEN [g.attr[n] EXCEPT !.status = "IN_PROGRESS"]
                            ELSE g.attr[n]]
          IN IF r.raised THEN Raise(self, "KeyError", "")
             ELSE Return([self EXCEPT !.graph.attr = claimed], r.tasks)

\* Mutant of get_ready_tasks: the request is validated after the loop over
\* the nodes.
get_ready_tasks_ValidatingLast(self, request) ==
  LET r == ReadyLoop(self.graph, self.graph.nodes, request.flag, <<>>)
      checked == model_validate(self, request)
  IN IF r.raised THEN Raise(self, "KeyError", "")
     ELSE IF checked.tag = "raise" THEN checked
     ELSE Return(self, r.tasks)

get_ready_tasks(self, request) ==
  LET checked == model_validate(self, request)
  IN IF checked.tag = "raise" THEN checked
     ELSE LET r == ReadyLoop(self.graph, self.graph.nodes, request.flag, <<>>)
          IN IF r.raised THEN Raise(self, "KeyError", "")
             ELSE Return(self, r.tasks)

----------------------------------------------------------------------------
(* The renderers.  A line of text is the sequence of the pieces the        *)
(* f-string puts together; the content is the sequence of the lines that   *)
(* "\n".join(lines) joins.                                                 *)

RECURSIVE Indent(_)
\* '  ' * level
Indent(level) == IF level = 0 THEN <<>> ELSE <<"  ">> \o Indent(level - 1)

\* lines 314-317: the line of one node
MarkdownLine(node, level, include_status) ==
  IF include_status
  THEN Indent(level) \o <<"- ", node.id, ": ", node.description,
                          " (", StatusValue(node.status), ")">>
  ELSE Indent(level) \o <<"- ", node.id, ": ", node.description>>

\* lines 320-324: the sources of the incoming COMPONENT_OF edges
Children(g, task_id) ==
  LET into == SelectSeq(in_edges(g, task_id), LAMBDA e : g.edge[e] = COMPONENT_OF)
  IN [i \in DOMAIN into |-> into[i][1]]

RECURSIVE _add_task(_, _, _, _, _)
RECURSIVE AddChildren(_, _, _, _, _, _)

\* _add_task(task_id, visited, level): the lines of the subtree, the visited
\* set after the call, and whether node.id raised AttributeError on a node
\* without payload
_add_task(g, include_status, task_id, visited, level) ==
  IF task_id \in visited
  THEN [lines |-> <<>>, visited |-> visited, raised |-> FALSE]
  ELSE LET seen == visited \cup {task_id}
           node == g.attr[task_id]
       IN IF node.kind = "None"
          THEN [lines |-> <<>>, visited |-> seen, raised |-> TRUE]
          ELSE AddChildren(g, include_status, Children(g, task_id), seen, level + 1,
                           <<MarkdownLine(node, level, include_status)>>)

\* Mutant of AddChildren: each child starts from the visited set of the
\* parent, without what its siblings have visited.
AddChildren_Forgetting(g, include_status, children, visited, level, lines) ==
  IF children = <<>>
  THEN [lines |-> lines, visited |-> visited, raised |-> FALSE]
  ELSE LET r == _add_task(g, include_status, Head(children), visited, level)
       IN IF r.raised
          THEN [lines |-> lines \o r.lines, visited |-> r.visited, raised |-> TRUE]
          ELSE AddChildren(g, include_status, Tail(children), visited, level,
                           lines \o r.lines)

\* for child in children: lines.extend(_add_task(child, visited, level + 1))
AddChildren(g, include_status, children, visited, level, lines) ==
  IF children = <<>>
  THEN [lines |-> lines, visited |-> visited, raised |-> FALSE]
  ELSE LET r == _add_task(g, include_status, Head(children), visited, level)
       IN IF r.raised
          THEN [lines |-> lines \o r.lines, visited |-> r.visited, raised |-> TRUE]
          ELSE AddChildren(g, include_status, Tail(children), r.visited, level,
                           lines \o r.lines)

\* lines 331-338: the nodes with no outgoing COMPONENT_OF edge, in node order
Roots(g) ==
  SelectSeq(g.nodes,
            LAMBDA n : ~\E e \in DOMAIN g.edge : e[1] = n /\ g.edge[e] = COMPONENT_OF)

\* lines 339-341: for root in roots: lines.extend(_add_task(root, visited));
\* every root starts at level 0
MarkdownLines(g, include_status) ==
  AddChildren(g, include_status, Roots(g), {}, 0, <<>>)

to_markdown(self, request) ==
  LET checked == model_validate(self, request)
  IN IF checked.tag = "raise" THEN checked
     ELSE LET r == MarkdownLines(self.graph, request.flag)
          IN IF r.raised THEN Raise(self, "AttributeError", "")
             ELSE Return(self, r.lines)

\* lines 369-376: the line of one edge
MermaidLine(src_node, dst_node, type, include_descriptions) ==
  LET arrow == IF type = DEPENDS_ON THEN "-.>" ELSE "-->"
  IN IF include_descriptions
     THEN <<"    ", src_node.id, "[", src_node.description, "] ", arrow, " ",
            dst_node.id, "[", dst_node.description, "]">>
     ELSE <<"    ", src_node.id, " ", arrow, " ", dst_node.id>>

\* lines 404-411: the line of one edge
GraphvizLine(src_node, dst_node, type, include_descriptions) ==
  LET style == IF type = DEPENDS_ON THEN "style=dashed" ELSE ""
  IN IF include_descriptions
     THEN <<"    \"", src_node.id, "\" [label=\"", src_node.description, "\"] -> \"",
            dst_node.id, "\" [label=\"", dst_node.description, "\" ", style, "]">>
     ELSE <<"    \"", src_node.id, "\" -> \"", dst_node.id, "\" [", style, "]">>

\* src_node.id raises AttributeError when an endpoint has no payload
EdgeRaises(g, es) ==
  \E i \in DOMAIN es : g.attr[es[i][1]].kind = "None" \/ g.attr[es[i][2]].kind = "None"

to_mermaid(self, request) ==
  LET checked == model_validate(self, request)
      g  == self.graph
      es == edges(g)
  IN IF checked.tag = "raise" THEN checked
     ELSE IF EdgeRaises(g, es) THEN Raise(self, "AttributeError", "")
     ELSE Return(self,
                 <<<<"graph TD">>>> \o
                 [i \in DOMAIN es |->
                    MermaidLine(g.attr[es[i][1]], g.attr[es[i][2]], g.edge[es[i]],
                                request.flag)])

to_graphviz(self, request) ==
  LET checked == model_validate(self, request)
      g  == self.graph
      es == edges(g)
  IN IF checked.tag = "raise" THEN checked
     ELSE IF EdgeRaises(g, es) THEN Raise(self, "AttributeError", "")
     ELSE Return(self,
                 <<<<"digraph {">>>> \o
                 [i \in DOMAIN es |->
                    GraphvizLine(g.attr[es[i][1]], g.attr[es[i][2]], g.edge[es[i]],
                                 request.flag)] \o
                 <<<<"}">>>>)

----------------------------------------------------------------------------
(* The explored documents.  An element carries the raw text of each        *)
(* attribute and child the parser reads.                                   *)

TaskElem(id, status, priority, deps) ==
  [id |-> id, status |-> status, description |-> "task", priority |-> priority,
   depends_on |-> deps]

StoryElem(id, status, priority, points, tasks) ==
  [id |-> id, status |-> status, description |-> "story", priority |-> priority,
   points |-> points, tasks |-> tasks]

EpicElem(id, status, priority, stories) ==
  [id |-> id, status |-> status, description |-> "epic", priority |-> priority,
   stories |-> stories]

Document(kind, epics) == [kind |-> kind, version |-> "1.0", epics |-> epics]

\* One epic, one story, two tasks: every task status, the dependency lists
\* below (another task, the task itself, the story, the epic, an id no
\* element carries, an empty depends_on element) and three status pairs of
\* the epic and the story.
DepPairs ==
  { <<(<<>>), (<<>>)>>, <<(<<>>), (<<"t1">>)>>, <<(<<"t2">>), (<<"t1">>)>>,
    <<(<<"t1">>), (<<>>)>>, <<(<<>>), (<<"s1">>)>>, <<(<<>>), (<<"e1">>)>>,
    <<(<<"zz">>), (<<>>)>>, <<(<<"">>), (<<"t1", "zz">>)>>,
    <<(<<>>), (<<"t1", "s1">>)>> }

ContainerStatuses ==
  { <<"in_progress", "complete">>, <<"in_progress", "pending">>,
    <<"complete", "complete">> }

ReadyDocs ==
  { Document("valid",
      <<EpicElem("e1", c[1], "1",
          <<StoryElem("s1", c[2], "2", "3",
              <<TaskElem("t1", s1, "1", d[1]), TaskElem("t2", s2, Absent, d[2])>>)>>)>>)
    : c \in ContainerStatuses, s1 \in StatusValues, s2 \in StatusValues, d \in DepPairs }

\* Two epics, the first with two stories of two and one tasks: every subset
\* of the seven elements carries a defect.  The third task depends on the
\* first and on the second story.
DropDocs ==
  { Document("valid",
      <<EpicElem("e1", IF b[1] THEN "Complete" ELSE "complete", "1",
          <<StoryElem("s1", "pending", "1", IF b[2] THEN "many" ELSE "3",
              <<TaskElem("t1", IF b[3] THEN "bogus" ELSE "complete", "1", <<>>),
                TaskElem("t2", "pending", IF b[4] THEN "high" ELSE "2", <<"t1">>)>>),
            StoryElem("s2", IF b[5] THEN Absent ELSE "in_progress", "1", Absent,
              <<TaskElem("t3", IF b[6] THEN "" ELSE "pending", "1", <<"t1", "s2">>)>>)>>),
        EpicElem("e2", "pending", IF b[7] THEN "" ELSE "0", <<>>)>>)
    : b \in [1..7 -> BOOLEAN] }

\* One epic, one story, two tasks with ids drawn from four texts, the empty
\* one included: unique ids, and duplicate ids within and across levels.
IdTexts == {"", "a", "b", "c"}

IdDocs ==
  { Document("valid",
      <<EpicElem(i[1], "pending", "1",
          <<StoryElem(i[2], "complete", "1", "1",
              <<TaskElem(i[3], "pending", "1", <<>>),
                TaskElem(i[4], "in_progress", "1", <<"a">>)>>)>>)>>)
    : i \in [1..4 -> IdTexts] }

\* A story of ChainLen tasks, each depending on the next; the last depends
\* on the first or on nothing.
ChainIds == <<"t1", "t2", "t3", "t4", "t5", "t6">>

ChainTasks(st, closed) ==
  [i \in 1..ChainLen |->
     TaskElem(ChainIds[i], st[i], "1",
              IF i < ChainLen THEN <<ChainIds[i + 1]>>
              ELSE IF closed THEN <<ChainIds[1]>> ELSE <<>>)]

ChainDocs ==
  { Document("valid",
      <<EpicElem("e1", "pending", "1",
          <<StoryElem("s1", "pending", "1", "1", ChainTasks(st, closed))>>)>>)
    : st \in [1..ChainLen -> StatusValues], closed \in BOOLEAN }

\* Absent attributes and children, an empty plan, an epic without stories.
EdgeDocs ==
  { Document("valid", <<>>),
    Document("valid", <<EpicElem("e1", "pending", Absent, <<>>)>>),
    Document("valid", <<EpicElem(Absent, "pending", "1",
                          <<StoryElem("s1", "pending", "1", "1", <<>>)>>)>>),
    Document("valid", <<EpicElem("e1", Absent, "1",
                          <<StoryElem("s1", "pending", "1", "1", <<>>)>>)>>),
    [kind |-> "valid", version |-> Absent,
     epics |-> <<[id |-> "e1", status |-> "complete", description |-> Absent,
                  priority |-> "1",
                  stories |-> <<StoryElem("s1", "complete", "x", "1",
                                  <<TaskElem("t1", "pending", "1", <<>>)>>),
                                StoryElem("e1", "pending", "1", "1",
                                  <<TaskElem(Absent, "pending", "1", <<Absent>>)>>)>>]>>] }

\* Documents whose repeated ids give graphs that are no trees: a task under
\* two stories, a story under two epics, a story and an epic that are
\* components of each other below a root, and all of these at once.
StoryOf(id, task_ids) ==
  StoryElem(id, "pending", "1", "1",
            [i \in DOMAIN task_ids |-> TaskElem(task_ids[i], "pending", "1", <<>>)])

ShapeDocs ==
  { Document("valid",
      <<EpicElem("r", "pending", "1", <<StoryOf("x", <<"y">>), StoryOf("z", <<"y">>)>>)>>),
    Document("valid",
      <<EpicElem("r", "pending", "1", <<StoryOf("x", <<"t">>)>>),
        EpicElem("q", "pending", "1", <<StoryOf("x", <<>>)>>)>>),
    Document("valid",
      <<EpicElem("r", "pending", "1", <<StoryOf("x", <<"y">>)>>),
        EpicElem("y", "pending", "1", <<StoryOf("x", <<>>)>>)>>),
    Document("valid",
      <<EpicElem("r", "pending", "1", <<StoryOf("x", <<"y">>), StoryOf("z", <<"y">>)>>),
        EpicElem("y", "pending", "1", <<StoryOf("x", <<>>)>>)>>) }

Docs == ReadyDocs \cup DropDocs \cup IdDocs \cup ChainDocs \cup EdgeDocs \cup ShapeDocs

\* The files at the other paths a caller builds from or validates.
Paths == {"plan.xml", "other.xml", "invalid.xml", "malformed.xml", "nonexistent.xml"}

OtherDoc ==
  Document("valid",
    <<EpicElem("epic1", "in_progress", "1",
        <<StoryElem("story1", "complete", "1", "2",
            <<TaskElem("task1", "complete", "1", <<>>),
              TaskElem("t2", "pending", "1", <<"task1">>)>>)>>)>>)

Content(path) ==
  CASE path = "plan.xml"        -> file
    [] path = "other.xml"       -> OtherDoc
    [] path = "invalid.xml"     -> [OtherDoc EXCEPT !.kind = "schema_violation"]
    [] path = "malformed.xml"   -> [OtherDoc EXCEPT !.kind = "malformed"]
    [] path = "nonexistent.xml" -> Document("unreadable", <<>>)

\* The configuration records: both values of the flag, and one that does not
\* fit the request model.
Requests ==
  { [wellformed |-> TRUE, flag |-> TRUE], [wellformed |-> TRUE, flag |-> FALSE],
    [wellformed |-> FALSE, flag |-> FALSE] }

----------------------------------------------------------------------------
(* The state machine: one PlanGraph object and its callers.                *)

Self == [graph |-> graph, plan |-> plan, schema |-> schema, loads |-> loads]

Outcome(op, arg, r) ==
  [op |-> op, arg |-> arg, tag |-> r.tag, exc |-> r.exc, cause |-> r.cause,
   value |-> r.value]

\* the object and the caller's record of the call, after it
Ends(op, arg, r) ==
  /\ graph'  = r.self.graph
  /\ plan'   = r.self.plan
  /\ schema' = r.self.schema
  /\ loads'  = r.self.loads
  /\ ret'    = Outcome(op, arg, r)
  /\ old'    = [graph |-> graph, plan |-> plan, file |-> file]

\* a call during which nobody writes plan.xml
Becomes(op, arg, r) == Ends(op, arg, r) /\ UNCHANGED file

\* __init__: an empty graph, no schema, no plan
Init ==
  /\ file \in Docs
  /\ graph = EmptyGraph
  /\ plan = None
  /\ schema = "None"
  /\ loads = 0
  /\ ret = [op |-> "__init__", arg |-> "", tag |-> "return", exc |-> "", cause |-> "",
            value |-> <<>>]
  /\ old = [graph |-> EmptyGraph, plan |-> None, file |-> file]

ValidateXml == \E path \in Paths :
  Becomes("validate_xml", path, validate_xml(Self, Content(path)))

BuildFromXml == \E path \in Paths :
  Becomes("build_from_xml", path, build_from_xml(Self, Content(path)))

GetReadyTasks == \E request \in Requests :
  Becomes("get_ready_tasks", request, get_ready_tasks(Self, request))

ToMarkdown == \E request \in Requests :
  Becomes("to_markdown", request, to_markdown(Self, request))

ToMermaid == \E request \in Requests :
  Becomes("to_mermaid", request, to_mermaid(Self, request))

ToGraphviz == \E request \in Requests :
  Becomes("to_graphviz", request, to_graphviz(Self, request))

\* A caller adds a parsed task to the graph itself, as the unit test of the
\* ready tasks does: plan_graph.graph.add_node("ready_task", node=task).
DirectIds == <<"ready_task", "ready_task2", "ready_task3">>

DirectCount == Cardinality({i \in DOMAIN DirectIds : HasNode(graph, DirectIds[i])})

\* etree.Element("task", id=..., status="pending"): an element without
\* description, priority and depends_on children
BareTaskElem(id) ==
  [id |-> id, status |-> "pending", description |-> Absent, priority |-> Absent,
   depends_on |-> <<>>]

\* The ids are used in their order, at most MaxDirect of them; adding an id
\* that is in the graph already stores its payload again.
AddNodeDirect == \E i \in 1..MaxDirect :
  /\ i <= DirectCount + 1
  /\ LET id   == DirectIds[i]
         task == _parse_task(BareTaskElem(id))
     IN Becomes("add_node", id, Return([Self EXCEPT !.graph = add_node(graph, id, task)],
                                       <<>>))

Next ==
  \/ ValidateXml
  \/ BuildFromXml
  \/ GetReadyTasks
  \/ ToMarkdown
  \/ ToMermaid
  \/ ToGraphviz
  \/ AddNodeDirect

Spec == Init /\ [][Next]_vars

----------------------------------------------------------------------------
(* Vocabulary of the properties.                                           *)

NodeIds(g) == DOMAIN g.attr

\* the nodes that carry a Task, Story or Epic
HasPayload(g, n) == g.attr[n].kind # "None"

AllPayloads(g) == \A n \in NodeIds(g) : HasPayload(g, n)

\* the targets of the DependsOn edges that leave n
DependsOnSet(g, n) ==
  {d \in NodeIds(g) : <<n, d>> \in DOMAIN g.edge /\ g.edge[<<n, d>>] = DEPENDS_ON}

NoDuplicates(seq) == \A i, j \in DOMAIN seq : seq[i] = seq[j] => i = j

\* the last call was op, with a configuration that fits its request model
Called(op) == ret.op = op /\ ret.arg.wellformed

\* the graph is as the last successful build left it
FromBuild == plan.kind = "PlanNode" /\ DirectCount = 0

\* the last call was a build that returned; BuiltDoc is what it was given
JustBuilt == ret.op = "build_from_xml" /\ ret.tag = "return"

BuiltDoc == Content(ret.arg)

\* Epic E1 (InProgress) > Story S1 (Complete) > T1 (Complete), T2 (Pending,
\* depends on T1)
ScenarioDoc ==
  Document("valid",
    <<EpicElem("e1", "in_progress", "1",
        <<StoryElem("s1", "complete", "2", "3",
            <<TaskElem("t1", "complete", "1", <<>>),
              TaskElem("t2", "pending", Absent, <<"t1">>)>>)>>)>>)

----------------------------------------------------------------------------
(* C1.  On a graph in which every node carries a payload (every dependency  *)
(* id names an existing node), get_ready_tasks returns, each id at most    *)
(* once, exactly the Task nodes that are not Complete, that are not        *)
(* InProgress unless include_in_progress is set, and whose DependsOn       *)
(* targets are all Complete.  A Pending task without dependency is ready,  *)
(* and the scenario E1 > S1 > T1, T2 yields exactly [T2] without the flag. *)

ReadySet(g, include_in_progress) ==
  {n \in NodeIds(g) :
     /\ g.attr[n].kind = "TaskNode"
     /\ g.attr[n].status # "COMPLETE"
     /\ g.attr[n].status = "IN_PROGRESS" => include_in_progress
     /\ \A d \in DependsOnSet(g, n) : g.attr[d].status = "COMPLETE"}

C1_ReadyTasks ==
  (Called("get_ready_tasks") /\ AllPayloads(graph)) =>
     /\ ret.tag = "return"
     /\ NoDuplicates(ret.value)
     /\ Range(ret.value) = ReadySet(graph, ret.arg.flag)
     /\ \A n \in NodeIds(graph) :
          (/\ graph.attr[n].kind = "TaskNode"
           /\ graph.attr[n].status = "PENDING"
           /\ DependsOnSet(graph, n) = {}) => n \in Range(ret.value)
     /\ (/\ FromBuild
         /\ plan.epics = ParseEpics(ScenarioDoc.epics)
         /\ ~ret.arg.flag) => ret.value = <<"t2">>

\* the scenario was built and queried without the flag: T2 alone is ready
C1_Witness ==
  /\ Called("get_ready_tasks") /\ ~ret.arg.flag
  /\ FromBuild /\ AllPayloads(graph)
  /\ plan.epics = ParseEpics(ScenarioDoc.epics)
  /\ graph.attr["e1"].status = "IN_PROGRESS" /\ graph.attr["s1"].status = "COMPLETE"
  /\ graph.attr["t1"].status = "COMPLETE" /\ graph.attr["t2"].status = "PENDING"
  /\ DependsOnSet(graph, "t2") = {"t1"}
  /\ ret.value = <<"t2">>

RECURSIVE Concat(_)
\* the concatenation of a sequence of sequences
Concat(seqs) == IF seqs = <<>> THEN <<>> ELSE Head(seqs) \o Concat(Tail(seqs))

\* the ids of the plan's elements, in document order
TaskIdSeq(story) == [i \in DOMAIN story.tasks |-> story.tasks[i].id]

StoryIdSeq(epic) ==
  Concat([i \in DOMAIN epic.stories |->
            <<epic.stories[i].id>> \o TaskIdSeq(epic.stories[i])])

PlanIdSeq(p) ==
  Concat([i \in DOMAIN p.epics |-> <<p.epics[i].id>> \o StoryIdSeq(p.epics[i])])

\* the plan keeps to the data model: ids are unique across levels and not empty
CleanPlan(p) == NoDuplicates(PlanIdSeq(p)) /\ "" \notin Range(PlanIdSeq(p))

----------------------------------------------------------------------------
(* C2.  After a build, get_ready_tasks returns normally and its result     *)
(* holds no task that lists a dependency id carried by no element.         *)

\* n is a task with a DependsOn edge to a node that no element stands behind
HasDanglingDependency(g, n) ==
  /\ g.attr[n].kind = "TaskNode"
  /\ \E d \in DependsOnSet(g, n) : ~HasPayload(g, d)

\* Checked on the plans whose ids are unique and not empty.
C2_DanglingNeverReady ==
  (Called("get_ready_tasks") /\ FromBuild /\ CleanPlan(plan)) =>
     /\ ret.tag = "return"
     /\ \A n \in NodeIds(graph) :
          HasDanglingDependency(graph, n) => n \notin Range(ret.value)

----------------------------------------------------------------------------
(* C3.  A build from a document that is schema-violating, not well-formed  *)
(* or unreadable raises XMLValidationError and leaves the graph and the    *)
(* plan exactly as they were when the call began.                          *)

C3_FailedBuildChangesNothing ==
  (ret.op = "build_from_xml" /\ BuiltDoc.kind # "valid") =>
     /\ ret.tag = "raise"
     /\ ret.exc = "XMLValidationError"
     /\ graph = old.graph
     /\ plan = old.plan

\* a build failed on an object that held a graph and a plan
C3_Witness ==
  /\ ret.op = "build_from_xml" /\ BuiltDoc.kind = "schema_violation"
  /\ ret.tag = "raise"
  /\ old.plan.kind = "PlanNode" /\ old.graph.nodes # <<>>
  /\ graph = old.graph

----------------------------------------------------------------------------
(* C4.  After a successful build the graph and the plan are what a build   *)
(* of the same document yields on a fresh object, whatever the graph held  *)
(* before; no node or edge of the previous contents is left unless the     *)
(* document has an element or a dependency entry that produces it.         *)

Fresh == [graph |-> EmptyGraph, plan |-> None, schema |-> "None", loads |-> 0]

\* the ids the document can give rise to: of its elements, and the texts of
\* its depends_on entries
RECURSIVE SeqUnion(_)
SeqUnion(sets) == IF sets = <<>> THEN {} ELSE Head(sets) \cup SeqUnion(Tail(sets))

TaskTexts(t) == {Get(t.id, "")} \cup Range(t.depends_on)

StoryTexts(s) ==
  {Get(s.id, "")} \cup SeqUnion([i \in DOMAIN s.tasks |-> TaskTexts(s.tasks[i])])

EpicTexts(e) ==
  {Get(e.id, "")} \cup SeqUnion([i \in DOMAIN e.stories |-> StoryTexts(e.stories[i])])

DocTexts(doc) == SeqUnion([i \in DOMAIN doc.epics |-> EpicTexts(doc.epics[i])])

C4_RebuildReplaces ==
  JustBuilt =>
     LET fresh == build_from_xml(Fresh, BuiltDoc).self
     IN /\ graph = fresh.graph
        /\ plan = fresh.plan
        /\ NodeIds(graph) \subseteq DocTexts(BuiltDoc)
        /\ \A e \in DOMAIN graph.edge : {e[1], e[2]} \subseteq DocTexts(BuiltDoc)

\* a build replaced a graph that held nodes the new document does not produce
C4_Witness ==
  /\ JustBuilt
  /\ \E n \in NodeIds(old.graph) : n \notin DocTexts(BuiltDoc)
  /\ \E e \in DOMAIN old.graph.edge : e \notin DOMAIN graph.edge
  /\ HasNode(old.graph, "ready_task")
  /\ graph.nodes # <<>>

----------------------------------------------------------------------------
(* The elements of a document, and which of them the parser keeps.         *)

EpicElems(doc) == Range(doc.epics)

StoryElems(doc) == UNION {Range(e.stories) : e \in EpicElems(doc)}

TaskElems(doc) == UNION {Range(s.tasks) : s \in StoryElems(doc)}

\* the status maps to Pending, InProgress or Complete
KnownStatus(e) == Get(e.status, "") \in StatusValues

\* the element on its own converts: known status, numeric priority and, for
\* a Story, numeric points
Converts(e) ==
  /\ KnownStatus(e)
  /\ Get(e.priority, "1") \in IntTexts
  /\ "points" \in DOMAIN e => Get(e.points, "0") \in IntTexts

\* kept: the element converts and so does every element that encloses it
KeptEpicElems(doc) == SelectSeq(doc.epics, Converts)

KeptStoryElems(epic) == SelectSeq(epic.stories, Converts)

KeptTaskElems(story) == SelectSeq(story.tasks, Converts)

KeptStories(doc) == UNION {Range(KeptStoryElems(e)) : e \in Range(KeptEpicElems(doc))}

KeptTasks(doc) == UNION {Range(KeptTaskElems(s)) : s \in KeptStories(doc)}

\* the non-empty dependency ids of a task element
DepIds(t) == {d \in Range(t.depends_on) : d # "" /\ d # Absent}

KeptIds(doc) ==
  {Get(e.id, "") : e \in Range(KeptEpicElems(doc)) \cup KeptStories(doc) \cup KeptTasks(doc)}

KeptDepIds(doc) == UNION {DepIds(t) : t \in KeptTasks(doc)}

\* no two elements of the document share an id
ElementCount(doc) ==
  Cardinality(EpicElems(doc)) + Cardinality(StoryElems(doc)) + Cardinality(TaskElems(doc))

ElementIds(doc) ==
  {Get(e.id, "") : e \in EpicElems(doc) \cup StoryElems(doc) \cup TaskElems(doc)}

UniqueIds(doc) ==
  /\ Len(doc.epics) = Cardinality(EpicElems(doc))
  /\ \A e \in EpicElems(doc) : Len(e.stories) = Cardinality(Range(e.stories))
  /\ \A s \in StoryElems(doc) : Len(s.tasks) = Cardinality(Range(s.tasks))
  /\ Cardinality(ElementIds(doc)) = ElementCount(doc)

----------------------------------------------------------------------------
(* C5 as stated: after a build of a valid document the number of nodes is  *)
(* the number of Epic, Story and Task elements with a non-empty id and a   *)
(* known status.                                                           *)

RECURSIVE Sum(_)
Sum(ns) == IF ns = <<>> THEN 0 ELSE Head(ns) + Sum(Tail(ns))

Counts(e) == IF Get(e.id, "") # "" /\ KnownStatus(e) THEN 1 ELSE 0

CountTasks(story) == Sum([i \in DOMAIN story.tasks |-> Counts(story.tasks[i])])

CountStories(epic) ==
  Sum([i \in DOMAIN epic.stories |->
         Counts(epic.stories[i]) + CountTasks(epic.stories[i])])

CountElements(doc) ==
  Sum([i \in DOMAIN doc.epics |-> Counts(doc.epics[i]) + CountStories(doc.epics[i])])

\* Section 4.2 of the specification: an element is dropped when its id is
\* empty, its status is unknown or its priority or points is not numeric
Sound(e) == Get(e.id, "") # "" /\ Converts(e)

\* the elements 4.2 keeps: the sound ones under sound enclosing elements
SoundTasks(story) == Len(SelectSeq(story.tasks, Sound))

SoundStories(epic) ==
  Sum([i \in DOMAIN epic.stories |->
         IF Sound(epic.stories[i]) THEN 1 + SoundTasks(epic.stories[i]) ELSE 0])

SoundElements(doc) ==
  Sum([i \in DOMAIN doc.epics |->
         IF Sound(doc.epics[i]) THEN 1 + SoundStories(doc.epics[i]) ELSE 0])

\* the number of elements of the document, and whether each has an id of
\* its own
Elements(doc) ==
  Sum([i \in DOMAIN doc.epics |->
         1 + Sum([j \in DOMAIN doc.epics[i].stories |->
                    1 + Len(doc.epics[i].stories[j].tasks)])])

NoSharedId(doc) == Cardinality(ElementIds(doc)) = Elements(doc)

\* C5, checked on the documents in which every element the statement counts
\* is one that 4.2 keeps (no counted element has a priority or points that is
\* not numeric, and none lies under a dropped Story or Epic), no two
\* elements share an id and every dependency id is the id of a kept element.
C5_NodeCount ==
  (/\ JustBuilt
   /\ CountElements(BuiltDoc) = SoundElements(BuiltDoc)
   /\ NoSharedId(BuiltDoc)
   /\ KeptDepIds(BuiltDoc) \subseteq KeptIds(BuiltDoc))
  => Len(graph.nodes) = CountElements(BuiltDoc)

----------------------------------------------------------------------------
(* C6.  At each level, parsing an element whose id is empty, whose status  *)
(* is missing or unknown, or whose priority or points is not numeric       *)
(* yields no node, and no node of such an element enters the plan or the   *)
(* graph.                                                                  *)

Defective(e) == Get(e.id, "") = "" \/ ~Converts(e)

\* Checked on the documents in which no two elements share an id.
C6_DefectiveYieldsNoNode ==
  (JustBuilt /\ UniqueIds(BuiltDoc)) =>
     /\ \A e \in EpicElems(BuiltDoc) : Defective(e) => _parse_epic(e).kind = "None"
     /\ \A e \in StoryElems(BuiltDoc) : Defective(e) => _parse_story(e).kind = "None"
     /\ \A e \in TaskElems(BuiltDoc) : Defective(e) => _parse_task(e).kind = "None"
     /\ \A n \in NodeIds(graph) : HasPayload(graph, n) => graph.attr[n].id # ""
     /\ \A i \in DOMAIN plan.epics : plan.epics[i].id # ""

----------------------------------------------------------------------------
(* C7.  Dropping is local.  A build of a valid document returns; the plan  *)
(* holds, in document order, exactly the kept Epics, in each the kept      *)
(* Stories and in each of those the kept Tasks, so a failing element takes *)
(* with it what is nested under it and nothing else; every payload of the  *)
(* graph is an element of the plan; and the graph has no node with the id  *)
(* of a dropped element or of an element nested under a dropped Story or   *)
(* Epic.                                                                   *)

\* what identifies an element and the node made of it: id and status value
ElemSig(e) == <<Get(e.id, ""), Get(e.status, "")>>

NodeSig(n) == <<n.id, StatusValue(n.status)>>

ElemSigs(elems) == [i \in DOMAIN elems |-> ElemSig(elems[i])]

NodeSigs(ns) == [i \in DOMAIN ns |-> NodeSig(ns[i])]

PlanStories(p) == UNION {Range(e.stories) : e \in Range(p.epics)}

PlanTasks(p) == UNION {Range(s.tasks) : s \in PlanStories(p)}

PlanNodes(p) == Range(p.epics) \cup PlanStories(p) \cup PlanTasks(p)

\* the elements of a document; those whose id no kept element carries are
\* the dropped ones and the ones nested under them
AllElems(doc) == EpicElems(doc) \cup StoryElems(doc) \cup TaskElems(doc)

C7_DropIsLocal ==
  (ret.op = "build_from_xml" /\ BuiltDoc.kind = "valid") =>
     LET kept == KeptEpicElems(BuiltDoc)
     IN /\ ret.tag = "return"
        /\ NodeSigs(plan.epics) = ElemSigs(kept)
        /\ \A i \in DOMAIN kept :
             LET stories == KeptStoryElems(kept[i])
             IN /\ NodeSigs(plan.epics[i].stories) = ElemSigs(stories)
                /\ \A j \in DOMAIN stories :
                     NodeSigs(plan.epics[i].stories[j].tasks)
                       = ElemSigs(KeptTaskElems(stories[j]))
        /\ \A n \in NodeIds(graph) :
             HasPayload(graph, n) => graph.attr[n] \in PlanNodes(plan)
        /\ \A e \in AllElems(BuiltDoc) :
             Get(e.id, "") \notin KeptIds(BuiltDoc) => ~HasNode(graph, Get(e.id, ""))

----------------------------------------------------------------------------
(* C8.  After a successful build the graph holds a ComponentOf edge        *)
(* Story->Epic for every kept Story, a ComponentOf edge Task->Story for    *)
(* every kept Task and a DependsOn edge Task->d for every entry d of a     *)
(* Task's dependency list (which may name a Story or an Epic), each with   *)
(* that tag, and no other edge.                                            *)

HasTaggedEdge(g, u, v, t) == HasEdge(g, u, v) /\ g.edge[<<u, v>>] = t

\* the edges the plan calls for, as <<source, target, tag>>
PlanEdges(p) ==
  {<<s.id, e.id, COMPONENT_OF>> : <<s, e>> \in
     {<<s, e>> \in PlanStories(p) \X Range(p.epics) : s \in Range(e.stories)}}
  \cup
  {<<t.id, s.id, COMPONENT_OF>> : <<t, s>> \in
     {<<t, s>> \in PlanTasks(p) \X PlanStories(p) : t \in Range(s.tasks)}}
  \cup
  UNION {{<<t.id, d, DEPENDS_ON>> : d \in Range(t.depends_on)} : t \in PlanTasks(p)}

\* Checked on the plans whose ids are unique and not empty and whose
\* dependency ids all name kept elements.
C8_EdgesOfThePlan ==
  (JustBuilt /\ CleanPlan(plan) /\ AllPayloads(graph)) =>
     /\ \A x \in PlanEdges(plan) : HasTaggedEdge(graph, x[1], x[2], x[3])
     /\ \A e \in DOMAIN graph.edge : <<e[1], e[2], graph.edge[e]>> \in PlanEdges(plan)

----------------------------------------------------------------------------
(* C9.  get_ready_tasks, to_markdown, to_mermaid and to_graphviz leave the *)
(* graph and the plan as they were when the call began, for every          *)
(* configuration and whether they return or raise.                         *)

Queries == {"get_ready_tasks", "to_markdown", "to_mermaid", "to_graphviz"}

C9_QueriesDoNotMutate ==
  ret.op \in Queries => graph = old.graph /\ plan = old.plan

\* get_ready_tasks returned a ready task on a graph that a build filled
C9_Witness ==
  /\ Called("get_ready_tasks") /\ ret.tag = "return" /\ ret.value # <<>>
  /\ FromBuild /\ Len(graph.nodes) >= 4 /\ graph.adj # <<>>
  /\ graph = old.graph /\ plan = old.plan

----------------------------------------------------------------------------
(* C10.  On a graph that a build produced, to_markdown emits exactly one   *)
(* line per node, in pre-order: each Epic at depth 0, each Story at depth  *)
(* 1 after its Epic's line and before the next Epic's line, each Task at   *)
(* depth 2 after its Story's line and before the next Story's line; a line *)
(* is 2 x depth spaces, "- ", the id, ": ", the description, and           *)
(* " (" status ")" exactly when include_status is set.                     *)

\* the line the claim describes for a node at a depth
OutlineLine(node, depth, include_status) ==
  [i \in 1..depth |-> "  "] \o <<"- ", node.id, ": ", node.description>>
  \o (IF include_status THEN <<" (", StatusValue(node.status), ")">> ELSE <<>>)

DepthOfKind(kind) ==
  CASE kind = "EpicNode" -> 0 [] kind = "StoryNode" -> 1 [] kind = "TaskNode" -> 2

\* the index of the line of node n among the lines, 0 when there is none
LineOf(lines, g, n, include_status) ==
  LET at == {i \in DOMAIN lines :
               lines[i] = OutlineLine(g.attr[n], DepthOfKind(g.attr[n].kind),
                                      include_status)}
  IN IF at = {} THEN 0 ELSE CHOOSE i \in at : \A j \in at : i <= j

\* the child's line comes after the parent's, with no line of another node
\* of the parent's kind in between
Under(lines, g, child, parent, include_status) ==
  LET c == LineOf(lines, g, child, include_status)
      p == LineOf(lines, g, parent, include_status)
  IN /\ 0 < p /\ p < c
     /\ \A n \in NodeIds(g) :
          (g.attr[n].kind = g.attr[parent].kind /\ n # parent) =>
             LET q == LineOf(lines, g, n, include_status) IN ~(p < q /\ q < c)

\* Checked on the plans whose ids are unique and not empty and whose
\* dependency ids all name kept elements.
C10_OutlineIsPreOrder ==
  (Called("to_markdown") /\ FromBuild /\ CleanPlan(plan) /\ AllPayloads(graph)) =>
     /\ ret.tag = "return"
     /\ Len(ret.value) = Len(graph.nodes)
     /\ \A n \in NodeIds(graph) : LineOf(ret.value, graph, n, ret.arg.flag) > 0
     /\ \A e \in Range(plan.epics) : \A s \in Range(e.stories) :
          /\ Under(ret.value, graph, s.id, e.id, ret.arg.flag)
          /\ \A t \in Range(s.tasks) : Under(ret.value, graph, t.id, s.id, ret.arg.flag)

----------------------------------------------------------------------------
(* C11.  On a graph that a build produced, to_mermaid returns "graph TD"   *)
(* followed by exactly one line per edge and nothing else; the line joins  *)
(* the source id and the target id with "-.>" for a DependsOn edge and     *)
(* "-->" for a ComponentOf edge, and the bracketed descriptions follow     *)
(* both ids exactly when include_descriptions is set.                      *)

\* the label the claim appends to an endpoint
Bracketed(node, include_descriptions) ==
  IF include_descriptions THEN <<"[", node.description, "]">> ELSE <<>>

\* the pieces of the line the claim describes for the edge e, without the
\* blanks around them
ArrowLine(g, e, include_descriptions) ==
  <<e[1]>> \o Bracketed(g.attr[e[1]], include_descriptions)
  \o <<IF g.edge[e] = DEPENDS_ON THEN "-.>" ELSE "-->">>
  \o <<e[2]>> \o Bracketed(g.attr[e[2]], include_descriptions)

Blanks == {" ", "    "}

\* the pieces of a rendered line: blanks dropped, a blank after "]" cut off
Pieces(line) ==
  LET kept == SelectSeq(line, LAMBDA p : p \notin Blanks)
  IN [i \in DOMAIN kept |-> IF kept[i] = "] " THEN "]" ELSE kept[i]]

\* Checked on the plans whose ids are unique and not empty.
C11_MermaidLines ==
  (Called("to_mermaid") /\ FromBuild /\ CleanPlan(plan)) =>
     /\ ret.tag = "return"
     /\ Len(ret.value) = 1 + Cardinality(DOMAIN graph.edge)
     /\ ret.value[1] = <<"graph TD">>
     /\ \A e \in DOMAIN graph.edge :
          \E i \in 2..Len(ret.value) :
             Pieces(ret.value[i]) = ArrowLine(graph, e, ret.arg.flag)

----------------------------------------------------------------------------
(* C12.  On a graph that a build produced, to_graphviz returns             *)
(* "digraph {", then exactly one line per edge of the form                 *)
(* "src" -> "dst", then "}"; the line carries style=dashed exactly when    *)
(* its edge is DependsOn, and label attributes with the descriptions of    *)
(* the two endpoints exactly when include_descriptions is set.             *)

Dashed(line) == "style=dashed" \in Range(line)

Label == "\" [label=\""

\* line is the line the claim describes for the edge e
IsGraphvizLine(g, e, line, include_descriptions) ==
  /\ line[1] = "    \"" /\ line[2] = e[1]
  /\ Dashed(line) <=> g.edge[e] = DEPENDS_ON
  /\ IF include_descriptions
     THEN /\ Len(line) = 11
          /\ line[3] = Label /\ line[4] = g.attr[e[1]].description
          /\ line[5] = "\"] -> \"" /\ line[6] = e[2]
          /\ line[7] = Label /\ line[8] = g.attr[e[2]].description
     ELSE /\ Len(line) = 7
          /\ line[3] = "\" -> \"" /\ line[4] = e[2]
          /\ Label \notin Range(line)

\* Checked on the plans whose ids are unique and not empty.
C12_GraphvizLines ==
  (Called("to_graphviz") /\ FromBuild /\ CleanPlan(plan)) =>
     /\ ret.tag = "return"
     /\ Len(ret.value) = 2 + Cardinality(DOMAIN graph.edge)
     /\ ret.value[1] = <<"digraph {">>
     /\ ret.value[Len(ret.value)] = <<"}">>
     /\ \A e \in DOMAIN graph.edge :
          \E i \in 2..(Len(ret.value) - 1) :
             IsGraphvizLine(graph, e, ret.value[i], ret.arg.flag)

----------------------------------------------------------------------------
(* C13.  validate_xml has two outcomes: it returns True for a document     *)
(* that conforms to the schema, and it raises XMLValidationError, with the *)
(* originating exception as its cause, for a schema-violating document, a  *)
(* document that is not well-formed and a missing or unreadable file.  It  *)
(* never returns False and lets no other exception out.                    *)

\* the exception lxml raises for each kind of failure
CauseOf(kind) ==
  CASE kind = "schema_violation" -> "DocumentInvalid"
    [] kind = "malformed"        -> "XMLSyntaxError"
    [] kind = "unreadable"       -> "OSError"

C13_ValidateOutcomes ==
  ret.op = "validate_xml" =>
     LET doc == Content(ret.arg)
     IN IF doc.kind = "valid"
        THEN ret.tag = "return" /\ ret.value = <<"True">>
        ELSE /\ ret.tag = "raise"
             /\ ret.exc = "XMLValidationError"
             /\ ret.cause = CauseOf(doc.kind)

\* a schema-violating document was rejected by an object that had accepted
\* a document before
C13_Witness ==
  /\ ret.op = "validate_xml" /\ Content(ret.arg).kind = "schema_violation"
  /\ ret.tag = "raise" /\ ret.exc = "XMLValidationError"
  /\ ret.cause = "DocumentInvalid"
  /\ plan.kind = "PlanNode" /\ loads = 1

----------------------------------------------------------------------------
(* C14.  get_ready_tasks, to_markdown, to_mermaid and to_graphviz validate *)
(* the configuration before they touch the graph: with a malformed         *)
(* configuration the call fails with a validation error whatever the graph *)
(* holds, also where reading its nodes or edges would raise, and the graph *)
(* is unchanged.                                                           *)

C14_ConfigurationFirst ==
  (ret.op \in Queries /\ ~ret.arg.wellformed) =>
     /\ ret.tag = "raise"
     /\ ret.exc = "ValidationError"
     /\ graph = old.graph
     /\ plan = old.plan

\* the request a caller who got it right would have sent
WellFormed(request) == [request EXCEPT !.wellformed = TRUE]

\* a malformed configuration was rejected on a graph whose nodes cannot be
\* read without a KeyError
C14_Witness ==
  /\ ret.op = "get_ready_tasks" /\ ~ret.arg.wellformed
  /\ ret.exc = "ValidationError"
  /\ graph.nodes # <<>>
  /\ get_ready_tasks(Self, WellFormed(ret.arg)).exc = "KeyError"

----------------------------------------------------------------------------
(* C15.  get_ready_tasks looks at direct dependencies only.  When it       *)
(* returns, a task that passes the status filter and whose direct          *)
(* DependsOn targets are all Complete is in the result, also when one of   *)
(* those targets depends on a node that is not Complete; and a task with a *)
(* direct DependsOn target that is not Complete is not in the result,      *)
(* whatever the statuses further along.                                    *)

\* n is a task that the status filter lets through
Candidate(g, n, include_in_progress) ==
  /\ g.attr[n].kind = "TaskNode"
  /\ g.attr[n].status # "COMPLETE"
  /\ g.attr[n].status = "IN_PROGRESS" => include_in_progress

\* the nodes two DependsOn edges away from n
IndirectSet(g, n) == UNION {DependsOnSet(g, d) : d \in DependsOnSet(g, n)}

C15_DirectOnly ==
  (Called("get_ready_tasks") /\ ret.tag = "return") =>
     \A n \in NodeIds(graph) :
        Candidate(graph, n, ret.arg.flag) =>
           (n \in Range(ret.value)
              <=> \A d \in DependsOnSet(graph, n) : graph.attr[d].status = "COMPLETE")

\* a ready task whose dependency depends on a task that is not complete,
\* and a task that is not ready although the dependency of its dependency
\* is complete
C15_Witness ==
  /\ Called("get_ready_tasks") /\ ret.tag = "return" /\ FromBuild
  /\ \E n \in Range(ret.value) :
       /\ DependsOnSet(graph, n) # {}
       /\ \E x \in IndirectSet(graph, n) :
            HasPayload(graph, x) /\ graph.attr[x].status # "COMPLETE"
  /\ \E n \in NodeIds(graph) \ Range(ret.value) :
       /\ Candidate(graph, n, ret.arg.flag)
       /\ \E d \in DependsOnSet(graph, n) : graph.attr[d].status # "COMPLETE"
       /\ IndirectSet(graph, n) # {}
       /\ \A x \in IndirectSet(graph, n) :
            HasPayload(graph, x) /\ graph.attr[x].status = "COMPLETE"

----------------------------------------------------------------------------
(* C16.  After a successful build no two kept elements of the plan carry   *)
(* the same id, at one level or across levels: every node that carries a   *)
(* payload carries an element of the plan, and every element of the plan   *)
(* is the payload of the node of its id.                                   *)

C16_UniqueIds ==
  JustBuilt =>
     /\ NoDuplicates(PlanIdSeq(plan))
     /\ \A n \in NodeIds(graph) :
          HasPayload(graph, n) => graph.attr[n] \in PlanNodes(plan)
     /\ \A x \in PlanNodes(plan) : HasNode(graph, x.id) /\ graph.attr[x.id] = x

----------------------------------------------------------------------------
(* C17.  A build of a plan in which a Task's dependency id is carried by   *)
(* no element succeeds and records the DependsOn edge from the Task to     *)
(* that id, and the id does not become a node: after the build every node  *)
(* of the graph is a Task, Story or Epic of the plan, none is a node       *)
(* without payload.                                                        *)

\* the dependency ids of the plan's tasks that no element of the plan carries
DanglingIds(p) ==
  UNION {Range(t.depends_on) : t \in PlanTasks(p)} \ Range(PlanIdSeq(p))

\* Checked on the plans whose ids are unique and not empty.
C17_DanglingIsNoNode ==
  (ret.op = "build_from_xml" /\ BuiltDoc.kind = "valid" /\ CleanPlan(plan)) =>
     /\ ret.tag = "return"
     /\ \A t \in PlanTasks(plan) : \A d \in Range(t.depends_on) :
          d \in DanglingIds(plan) =>
             <<t.id, d>> \in DOMAIN graph.edge /\ graph.edge[<<t.id, d>>] = DEPENDS_ON
     /\ \A n \in NodeIds(graph) :
          HasPayload(graph, n) /\ graph.attr[n] \in PlanNodes(plan)

----------------------------------------------------------------------------
(* C19.  After a successful build the roots of the outline, the nodes      *)
(* with no outgoing ComponentOf edge, are exactly the Epic nodes: every    *)
(* Epic is a root, and no Task, Story or other node is.                    *)

EpicIds(g) == {n \in NodeIds(g) : g.attr[n].kind = "EpicNode"}

\* Checked on the plans whose ids are unique and not empty.
C19_RootsAreTheEpics ==
  (JustBuilt /\ CleanPlan(plan)) => Range(Roots(graph)) = EpicIds(graph)

----------------------------------------------------------------------------
(* C20.  On every graph whose nodes all carry a payload, to_markdown       *)
(* returns and emits no node more than once, also when ComponentOf edges   *)
(* form a cycle and when a node has ComponentOf edges to several parents:  *)
(* such a node is emitted at its first visit only.                         *)

\* the id a line of the outline shows: the piece after "- "
LineId(line) == line[(CHOOSE i \in DOMAIN line : line[i] = "- ") + 1]

LineIds(lines) == [i \in DOMAIN lines |-> LineId(lines[i])]

\* the nodes n is a component of
Parents(g, n) ==
  {m \in NodeIds(g) : <<n, m>> \in DOMAIN g.edge /\ g.edge[<<n, m>>] = COMPONENT_OF}

C20_OutlineVisitsOnce ==
  (Called("to_markdown") /\ AllPayloads(graph)) =>
     /\ ret.tag = "return"
     /\ NoDuplicates(LineIds(ret.value))
     /\ Range(LineIds(ret.value)) \subseteq NodeIds(graph)
     /\ Range(Roots(graph)) \subseteq Range(LineIds(ret.value))

\* the outline of a graph in which two emitted nodes are components of each
\* other and an emitted node has two parents
C20_Witness ==
  /\ Called("to_markdown") /\ AllPayloads(graph) /\ ret.tag = "return"
  /\ \E n, m \in Range(LineIds(ret.value)) :
       n # m /\ m \in Parents(graph, n) /\ n \in Parents(graph, m)
  /\ \E n \in Range(LineIds(ret.value)) : Cardinality(Parents(graph, n)) >= 2
  /\ Len(ret.value) = Len(graph.nodes) /\ Len(graph.nodes) >= 4
  /\ NoDuplicates(LineIds(ret.value))

----------------------------------------------------------------------------
(* C21.  Plan and graph are never partially updated.  In every state       *)
(* between calls of the public operations the graph is what the plan       *)
(* yields, or both are in their initial empty state; a build that returns  *)
(* leaves the plan of the document it was given, a build that raises and   *)
(* every other operation leave both as they were: both are always of the   *)
(* document of the last successful build.                                  *)

\* graph and plan are both initial, or the graph is that of the plan
Together(g, p) ==
  IF p.kind = "None" THEN g = EmptyGraph
  ELSE g = AddEpics(EmptyGraph, p.epics)

\* the plan of a document
PlanOf(doc) ==
  [kind |-> "PlanNode", version |-> Get(doc.version, "1.0"),
   epics |-> ParseEpics(doc.epics)]

\* The states in which no caller has put a node into the graph directly.
C21_PlanAndGraphTogether ==
  DirectCount = 0 =>
     /\ Together(graph, plan)
     /\ ret.op = "build_from_xml" =>
          IF ret.tag = "return" THEN plan = PlanOf(BuiltDoc)
          ELSE graph = old.graph /\ plan = old.plan
     /\ ret.op \in Queries \cup {"validate_xml"} => graph = old.graph /\ plan = old.plan

\* a build failed after the build of another document had replaced the plan
\* and the graph of plan.xml
C21_Witness ==
  /\ ret.op = "build_from_xml" /\ ret.tag = "raise"
  /\ plan = PlanOf(OtherDoc) /\ plan # PlanOf(file)
  /\ graph = AddEpics(EmptyGraph, plan.epics) /\ Len(graph.nodes) = 4
  /\ old.plan = plan /\ loads = 1

----------------------------------------------------------------------------
(* C22.  The schema is loaded on first use and kept.  Over every sequence  *)
(* of calls on one PlanGraph plan.xsd is loaded at most once; once it is   *)
(* cached, no step loads it again or clears or replaces the cached schema, *)
(* neither a validation that fails nor a build that clears the graph; and  *)
(* it is cached after every validation of a document that could be read   *)
(* and parsed.                                                             *)

C22_SchemaLoadedOnce ==
  [][/\ loads' <= 1
     /\ schema # "None" => schema' = schema /\ loads' = loads
     /\ (/\ ret'.op \in {"validate_xml", "build_from_xml"}
         /\ Content(ret'.arg).kind \in {"valid", "schema_violation"})
        => schema' = "XMLSchema" /\ loads' = 1]_vars

\* a second build replaced the graph of the first and the schema is the one
\* that was loaded once
C22_Witness ==
  /\ ret.op = "build_from_xml" /\ ret.tag = "return"
  /\ old.plan.kind = "PlanNode" /\ old.graph # graph
  /\ schema = "XMLSchema" /\ loads = 1

----------------------------------------------------------------------------
(* C23.  The include_in_progress flag only adds InProgress tasks.  On the  *)
(* graph on which get_ready_tasks without the flag returned, the call with *)
(* the flag returns every id of that result, in the same relative order,   *)
(* and every id it returns in addition is a Task whose status is           *)
(* InProgress.                                                             *)

WithInProgress == [wellformed |-> TRUE, flag |-> TRUE]

\* Checked on the graphs that a build of a plan with unique, non-empty ids
\* produced.
C23_FlagOnlyAdds ==
  (Called("get_ready_tasks") /\ ~ret.arg.flag /\ ret.tag = "return"
   /\ FromBuild /\ CleanPlan(plan)) =>
     LET with == get_ready_tasks(Self, WithInProgress)
     IN /\ with.tag = "return"
        /\ SelectSeq(with.value, LAMBDA n : n \in Range(ret.value)) = ret.value
        /\ \A n \in Range(with.value) \ Range(ret.value) :
             /\ graph.attr[n].kind = "TaskNode"
             /\ graph.attr[n].status = "IN_PROGRESS"

----------------------------------------------------------------------------
(* C24.  A task that depends on itself is never returned by                *)
(* get_ready_tasks; a task on a dependency cycle is returned only if the   *)
(* tasks it directly depends on are Complete, so when no task of a cycle   *)
(* is Complete none of them is returned, with or without the flag; and the *)
(* query returns on such graphs.                                           *)

RECURSIVE ReachIn(_, _, _)
\* the nodes reached from the nodes of from over at most steps DependsOn edges
ReachIn(g, from, steps) ==
  IF steps = 0 THEN from
  ELSE LET next == from \cup UNION {DependsOnSet(g, n) : n \in from}
       IN IF next = from THEN from ELSE ReachIn(g, next, steps - 1)

\* the nodes reached from n over one or more DependsOn edges
Reach(g, n) == ReachIn(g, DependsOnSet(g, n), Len(g.nodes))

\* the nodes on a dependency cycle through n
CycleOf(g, n) == {m \in Reach(g, n) : n \in Reach(g, m)}

C24_CyclesAreNeverReady ==
  Called("get_ready_tasks") =>
     /\ AllPayloads(graph) => ret.tag = "return"
     /\ \A n \in Range(ret.value) :
          /\ n \notin DependsOnSet(graph, n)
          /\ \A d \in DependsOnSet(graph, n) : graph.attr[d].status = "COMPLETE"
     /\ \A n \in NodeIds(graph) :
          (/\ CycleOf(graph, n) # {}
           /\ \A m \in CycleOf(graph, n) :
                HasPayload(graph, m) /\ graph.attr[m].status # "COMPLETE")
          => n \notin Range(ret.value)

\* the query with the flag returned on a cycle of three tasks, none of them
\* complete and one in progress, and returned none of them
C24_Witness ==
  /\ Called("get_ready_tasks") /\ ret.arg.flag /\ ret.tag = "return" /\ FromBuild
  /\ \E n \in NodeIds(graph) :
       /\ Cardinality(CycleOf(graph, n)) = 3
       /\ n \notin DependsOnSet(graph, n)
       /\ \A m \in CycleOf(graph, n) :
            graph.attr[m].kind = "TaskNode" /\ graph.attr[m].status # "COMPLETE"
       /\ \E m \in CycleOf(graph, n) : graph.attr[m].status = "IN_PROGRESS"
       /\ CycleOf(graph, n) \cap Range(ret.value) = {}

----------------------------------------------------------------------------
(* A build while another process writes plan.xml.  build_from_xml reads    *)
(* the file in validate_xml (line 80) and again at line 225; the other     *)
(* process may rewrite or remove the file in between.                      *)

\* build_from_xml where the first read finds doc and the second finds
\* reread: the second etree.parse is outside every try block, and nothing
\* validates what it returns
build_from_xml_reread(self, doc, reread) ==
  LET v == validate_xml(self, doc)
  IN IF v.tag = "raise" THEN v
     ELSE IF reread.kind = "unreadable" THEN Raise(v.self, "OSError", "")
     ELSE IF reread.kind = "malformed" THEN Raise(v.self, "XMLSyntaxError", "")
     ELSE LET cleared == clear(v.self.graph)
              version == Get(reread.version, "1.0")
              epics   == ParseEpics(reread.epics)
              built   == [kind |-> "PlanNode", version |-> version, epics |-> epics]
          IN Return([v.self EXCEPT !.graph = AddEpics(cleared, built.epics),
                                   !.plan  = built],
                    <<>>)

\* What plan.xml holds at one time or another: the scenario, a plan with
\* another task, a document the schema rejects, one that is not well-formed,
\* and no file at all.
RaceDocs ==
  { ScenarioDoc,
    Document("valid",
      <<EpicElem("e1", "in_progress", "1",
          <<StoryElem("s1", "pending", "2", "3",
              <<TaskElem("t3", "pending", "1", <<>>)>>)>>)>>),
    Document("schema_violation",
      <<EpicElem("e9", "pending", "1",
          <<StoryElem("s9", "pending", "1", "1",
              <<TaskElem("t9", "pending", "1", <<"t1">>)>>)>>)>>),
    Document("malformed", <<>>),
    Document("unreadable", <<>>) }

InitRace ==
  /\ file \in RaceDocs
  /\ graph = EmptyGraph
  /\ plan = None
  /\ schema = "None"
  /\ loads = 0
  /\ ret = [op |-> "__init__", arg |-> "", tag |-> "return", exc |-> "", cause |-> "",
            value |-> <<>>]
  /\ old = [graph |-> EmptyGraph, plan |-> None, file |-> file]

\* build_from_xml("plan.xml") while the file becomes reread between the reads
BuildFromXmlRaced == \E reread \in RaceDocs :
  /\ Ends("build_from_xml", "plan.xml", build_from_xml_reread(Self, file, reread))
  /\ file' = reread

NextRace ==
  \/ ValidateXml
  \/ BuildFromXml
  \/ BuildFromXmlRaced
  \/ GetReadyTasks
  \/ ToMarkdown
  \/ ToMermaid
  \/ ToGraphviz
  \/ AddNodeDirect

SpecRace == InitRace /\ [][NextRace]_vars

(* C25.  The document that build_from_xml parses into the plan and the     *)
(* graph is the document that passed validation, also when another process *)
(* rewrites or removes plan.xml between the two reads: a build that        *)
(* returns leaves the plan and the graph of the validated content, and a   *)
(* build that fails raises XMLValidationError and leaves graph and plan    *)
(* unchanged.                                                              *)

C25_ParsedIsValidated ==
  (ret.op = "build_from_xml" /\ ret.arg = "plan.xml") =>
     IF ret.tag = "return"
     THEN /\ old.file.kind = "valid"
          /\ plan = PlanOf(old.file)
          /\ graph = AddEpics(EmptyGraph, plan.epics)
     ELSE /\ ret.exc = "XMLValidationError"
          /\ graph = old.graph
          /\ plan = old.plan

----------------------------------------------------------------------------
(* C26.  Whether a task is ready does not depend on the status of its      *)
(* Story or Epic, on a priority or on a ComponentOf edge: on the graph     *)
(* with another status for a Story or Epic that no DependsOn edge points   *)
(* to, with another priority for a node, or without its ComponentOf edges, *)
(* get_ready_tasks has the outcome it has on the graph itself.  A Pending  *)
(* task in a Complete Story is ready when its dependencies are Complete.   *)

\* the Stories and Epics that no task lists as a dependency
FreeContainers(g) ==
  {c \in NodeIds(g) :
     /\ g.attr[c].kind \in {"StoryNode", "EpicNode"}
     /\ \A n \in NodeIds(g) : c \notin DependsOnSet(g, n)}

WithStatus(g, c, status) == [g EXCEPT !.attr[c].status = status]

WithPriority(g, n, priority) == [g EXCEPT !.attr[n].priority = priority]

WithoutComponentOf(g) ==
  LET kept == {e \in DOMAIN g.edge : g.edge[e] # COMPONENT_OF}
  IN [nodes |-> g.nodes, attr |-> g.attr,
      adj   |-> SelectSeq(g.adj, LAMBDA e : e \in kept),
      edge  |-> [e \in kept |-> g.edge[e]]]

\* the graphs that differ from g in one of these respects
Variants(g) ==
  {WithStatus(g, c, st) : c \in FreeContainers(g), st \in {"PENDING", "IN_PROGRESS", "COMPLETE"}}
  \cup {WithPriority(g, n, g.attr[n].priority + 1) : n \in {m \in NodeIds(g) : HasPayload(g, m)}}
  \cup {WithoutComponentOf(g)}

C26_ContainersDoNotCount ==
  Called("get_ready_tasks") =>
     \A v \in Variants(graph) :
        LET r == get_ready_tasks([Self EXCEPT !.graph = v], ret.arg)
        IN r.tag = ret.tag /\ r.exc = ret.exc /\ r.value = ret.value

\* a Pending task whose dependency is Complete is ready in a Complete Story
\* of an InProgress Epic, and stays ready when the Story is Pending
C26_Witness ==
  /\ Called("get_ready_tasks") /\ ~ret.arg.flag /\ FromBuild
  /\ plan = PlanOf(ScenarioDoc)
  /\ graph.attr["s1"].status = "COMPLETE" /\ graph.attr["e1"].status = "IN_PROGRESS"
  /\ "s1" \in FreeContainers(graph)
  /\ HasTaggedEdge(graph, "t2", "s1", COMPONENT_OF)
  /\ ret.value = <<"t2">>
  /\ get_ready_tasks([Self EXCEPT !.graph = WithStatus(graph, "s1", "PENDING")],
                     ret.arg).value = <<"t2">>

====
